---------------------------- MODULE Spec2Model ----------------------------
(***************************************************************************)
(* A model of the process-management core of the rCore teaching kernel:    *)
(*   - the task manager of os/src/task/mod.rs (task table, round-robin     *)
(*     scheduling, mmap, munmap),                                          *)
(*   - the process syscalls of os/src/syscall/process.rs (fork, exit,      *)
(*     waitpid, exec, spawn, set_priority, getpid, sbrk, get_time,         *)
(*     task_info) and the syscall accounting of the task manager,          *)
(*   - the file syscalls of os/src/syscall/fs.rs (open, close, read,       *)
(*     write, fstat),                                                      *)
(*   - the root directory of easy-fs/src/vfs.rs (create, add_link,         *)
(*     remove_link, find, ls, get_links).                                  *)
(* Each part has its own specification; a specification leaves the         *)
(* variables of the other parts at their initial value.                    *)
(***************************************************************************)
EXTENDS Integers, Sequences, FiniteSets, TLC

(***************************************************************************)
(* Bounds of the model.                                                    *)
(***************************************************************************)
\* the largest number of applications loaded at boot (get_num_app())
MaxApp == 3
\* the largest value of the millisecond clock
MaxTime == 2
\* the number of virtual pages of the modelled window of the user address space
MaxPage == 3
\* the largest number of task control blocks that exist at once
MaxProcs == 3
\* the number of pages between the heap bottom and the region above the heap
MaxHeapPages == 3
\* the largest length of a file-descriptor table
MaxFd == 4
\* the largest number of syscalls counted over all tasks
MaxCalls == 3
\* the largest number of entries of the root directory
MaxDirents == 3

VARIABLES
    \* ---- TaskManager (os/src/task/mod.rs) ----
    num_app,        \* TaskManager.num_app
    tasks,          \* TaskManagerInner.tasks: index -> task control block
    current_task,   \* TaskManagerInner.current_task
    pc,             \* where the kernel is: boot, user, marked, found, panicked
    next,           \* the local `next` of run_next_task (result of find_next_task)
    now,            \* the clock read by get_time_ms()
    exclusive,      \* TaskManager.inner is borrowed (UPSafeCell::exclusive_access)
    \* ---- the current task's address space (tasks[current].memory_set) ----
    page_table,     \* MemorySet.page_table: virtual page number -> entry
    areas,          \* MemorySet.areas: the mapped regions
    mm_last,        \* the last memory syscall: its arguments and return value
    mm_panicked,    \* the kernel panicked inside a memory syscall
    heap_bottom,    \* TaskControlBlock.heap_bottom
    program_brk,    \* TaskControlBlock.program_brk
    brk_last,       \* the last sbrk: its argument, the break before, the result
    \* ---- processes (os/src/syscall/process.rs) ----
    tcbs,           \* pid -> task control block of every process not yet freed
    ready_queue,    \* the tasks add_task handed to the scheduler
    current,        \* the pid current_task() returns
    pid_allocator,  \* the pid allocator: next fresh pid and the recycled pids
    proc_last,      \* the last process syscall: caller, arguments, results
    \* ---- syscall accounting (os/src/task/mod.rs) ----
    syscall_times,  \* TaskControlBlock.syscall_times of every task
    invoked,        \* history: how often each task has trapped with each id
    \* ---- file syscalls (os/src/syscall/fs.rs) ----
    io_panicked,    \* the kernel panicked inside a syscall of the current task
    \* ---- the root directory (easy-fs/src/vfs.rs) ----
    dirents,        \* the directory entries of the root inode, in disk order
    inode_bitmap,   \* the inode ids EasyFileSystem::alloc_inode has handed out
    fs_last         \* the last directory operation: arguments and result

tmVars == <<num_app, tasks, current_task, pc, next, now, exclusive>>

brkVars == <<heap_bottom, program_brk, brk_last>>

mmVars == <<page_table, areas, mm_last, mm_panicked, brkVars>>

procVars == <<tcbs, ready_queue, current, pid_allocator, proc_last>>

acctVars == <<syscall_times, invoked>>

ioVars == <<io_panicked>>

fsVars == <<dirents, inode_bitmap, fs_last>>

vars == <<num_app, tasks, current_task, pc, next, now, exclusive, page_table, areas, mm_last,
          mm_panicked, heap_bottom, program_brk, brk_last,
          tcbs, ready_queue, current, pid_allocator, proc_last,
          syscall_times, invoked, io_panicked, dirents, inode_bitmap, fs_last>>

\* Option::None of an Option<usize> (no task index)
None == -1

\* enum TaskStatus of the task manager
TaskStatus == {"Ready", "Running", "Exited"}

\* the indices of the task table
TaskIds == 0 .. (num_app - 1)

\* timer::get_time_ms()
get_time_ms == now

Min(S) == CHOOSE x \in S : \A y \in S : x <= y

(***************************************************************************)
(* TaskManager::find_next_task: the ids current+1 .. current+num_app,      *)
(* each taken modulo num_app, and the first of them whose task is Ready.   *)
(***************************************************************************)
\* (current + 1..current + self.num_app + 1).map(|id| id % self.num_app)
ScanOrder == [k \in 1 .. num_app |-> (current_task + k) % num_app]

\* a plausible slip: the scan starts at the head of the table
find_next_task_FromZero ==
    LET hits == {i \in TaskIds : tasks[i].task_status = "Ready"}
    IN  IF hits = {} THEN None ELSE Min(hits)

\* a plausible slip: the range ends one short and never reaches current itself
find_next_task_ShortRange ==
    LET hits == {k \in 1 .. (num_app - 1) : tasks[ScanOrder[k]].task_status = "Ready"}
    IN  IF hits = {} THEN None ELSE ScanOrder[Min(hits)]

\* a plausible slip: the scan takes any task that is not Running
find_next_task_NotRunning ==
    LET hits == {k \in 1 .. num_app : tasks[ScanOrder[k]].task_status # "Running"}
    IN  IF hits = {} THEN None ELSE ScanOrder[Min(hits)]

find_next_task ==
    LET hits == {k \in 1 .. num_app : tasks[ScanOrder[k]].task_status = "Ready"}
    IN  IF hits = {} THEN None ELSE ScanOrder[Min(hits)]

(***************************************************************************)
(* The state after the lazy_static TASK_MANAGER is built: num_app tasks,   *)
(* all Ready, current_task = 0.                                            *)
(***************************************************************************)
\* the task manager while the model is about something else: one task,
\* running in user mode
RestTM ==
    /\ num_app = 1
    /\ tasks = [i \in {0} |-> [task_status |-> "Running", task_start_time |-> 0]]
    /\ current_task = 0
    /\ pc = "user"
    /\ next = None
    /\ now = 0
    /\ exclusive = FALSE

InitTM ==
    /\ num_app \in 1 .. MaxApp
    /\ tasks = [i \in 0 .. (num_app - 1) |->
                  [task_status |-> "Ready", task_start_time |-> 0]]
    /\ current_task = 0
    /\ pc = "boot"
    /\ next = None
    /\ now = 0
    /\ exclusive = FALSE

\* UPSafeCell::exclusive_access on TaskManager.inner: the cell is borrowed
\* from here on (the call panics when it is borrowed already, which the
\* callers below rule out in their guards)
exclusive_access == TRUE

\* a plausible slip: the borrow is still held when the function goes on
drop_inner_Forgotten(borrowed) == borrowed

\* drop(inner), or `inner` going out of scope: the borrow is given back
drop_inner(borrowed) == FALSE

\* the millisecond timer advances
Tick ==
    /\ now < MaxTime
    /\ now' = now + 1
    /\ UNCHANGED <<num_app, tasks, current_task, pc, next, exclusive>>
    /\ UNCHANGED <<mmVars, procVars, acctVars, ioVars, fsVars>>

\* TaskManager::run_first_task
run_first_task ==
    /\ pc = "boot"
    /\ ~exclusive
    /\ tasks' = [tasks EXCEPT ![0].task_status = "Running",
                              ![0].task_start_time = get_time_ms]
    /\ exclusive' = drop_inner(exclusive_access)
    /\ pc' = "user"
    /\ UNCHANGED <<num_app, current_task, next, now>>
    /\ UNCHANGED <<mmVars, procVars, acctVars, ioVars, fsVars>>

\* a plausible slip: the suspended task keeps its Running status
mark_current_suspended_Keep ==
    /\ pc = "user"
    /\ pc' = "marked"
    /\ UNCHANGED <<num_app, tasks, current_task, next, now, exclusive>>
    /\ UNCHANGED <<mmVars, procVars, acctVars, ioVars, fsVars>>

\* TaskManager::mark_current_suspended, the first half of
\* suspend_current_and_run_next (sys_yield, timer interrupt)
mark_current_suspended ==
    /\ pc = "user"
    /\ ~exclusive
    /\ tasks' = [tasks EXCEPT ![current_task].task_status = "Ready"]
    /\ exclusive' = drop_inner(exclusive_access)
    /\ pc' = "marked"
    /\ UNCHANGED <<num_app, current_task, next, now>>
    /\ UNCHANGED <<mmVars, procVars, acctVars, ioVars, fsVars>>

\* TaskManager::mark_current_exited, the first half of exit_current_and_run_next
mark_current_exited ==
    /\ pc = "user"
    /\ ~exclusive
    /\ tasks' = [tasks EXCEPT ![current_task].task_status = "Exited"]
    /\ exclusive' = drop_inner(exclusive_access)
    /\ pc' = "marked"
    /\ UNCHANGED <<num_app, current_task, next, now>>
    /\ UNCHANGED <<mmVars, procVars, acctVars, ioVars, fsVars>>

\* TaskManager::run_next_task, its call of find_next_task
run_next_task_find ==
    /\ pc = "marked"
    /\ ~exclusive
    /\ next' = find_next_task
    /\ exclusive' = drop_inner(exclusive_access)
    /\ pc' = "found"
    /\ UNCHANGED <<num_app, tasks, current_task, now>>
    /\ UNCHANGED <<mmVars, procVars, acctVars, ioVars, fsVars>>

\* TaskManager::run_next_task, the switch to `next` (or the panic when
\* find_next_task returned None)
run_next_task_switch ==
    /\ pc = "found"
    /\ ~exclusive
    /\ IF next = None
       THEN /\ pc' = "panicked"
            /\ UNCHANGED <<tasks, current_task, exclusive>>
       ELSE /\ exclusive' = drop_inner(exclusive_access)
            /\ tasks' =
                 LET t1 == IF tasks[current_task].task_start_time = 0
                           THEN [tasks EXCEPT ![current_task].task_start_time = get_time_ms]
                           ELSE tasks
                 IN  [t1 EXCEPT ![next].task_status = "Running"]
            /\ current_task' = next
            /\ pc' = "user"
    /\ next' = None
    /\ UNCHANGED <<num_app, now>>
    /\ UNCHANGED <<mmVars, procVars, acctVars, ioVars, fsVars>>

NextTM ==
    \/ Tick
    \/ run_first_task
    \/ mark_current_suspended
    \/ mark_current_exited
    \/ run_next_task_find
    \/ run_next_task_switch

(***************************************************************************)
(* Syscall accounting (os/src/task/mod.rs, increase_current_syscall).      *)
(***************************************************************************)
\* the syscall ids counted in the model: SYSCALL_YIELD and SYSCALL_GETTIMEOFDAY
SyscallIds == {124, 169}

RECURSIVE SumCalls(_, _)
\* the number of entries of the history `invoked` over the pairs in `todo`
SumCalls(count, todo) ==
    IF todo = {} THEN 0
    ELSE LET p == CHOOSE q \in todo : TRUE
         IN  count[p[1]][p[2]] + SumCalls(count, todo \ {p})

\* the number of syscalls counted so far
TotalCalls == SumCalls(invoked, (DOMAIN invoked) \X SyscallIds)

\* no task has made a syscall yet
InitAcct ==
    /\ syscall_times = [i \in DOMAIN tasks |-> [id \in SyscallIds |-> 0]]
    /\ invoked = [i \in DOMAIN tasks |-> [id \in SyscallIds |-> 0]]

\* a plausible slip: the counter of task 0 is incremented, whichever task runs
increase_current_syscall_Task0(syscall_id) ==
    /\ pc = "user"
    /\ ~exclusive
    /\ TotalCalls < MaxCalls
    /\ syscall_times' = [syscall_times EXCEPT ![0][syscall_id] = @ + 1]
    /\ invoked' = [invoked EXCEPT ![current_task][syscall_id] = @ + 1]
    /\ exclusive' = drop_inner(exclusive_access)
    /\ UNCHANGED <<num_app, tasks, current_task, pc, next, now>>
    /\ UNCHANGED <<mmVars, procVars, ioVars, fsVars>>

\* TaskManager::increase_current_syscall, called by the syscall dispatcher
\* when the running task traps with syscall_id; the borrow of
\* TaskManager.inner ends when the function returns
increase_current_syscall(syscall_id) ==
    /\ pc = "user"
    /\ ~exclusive
    /\ TotalCalls < MaxCalls
    /\ syscall_times' = [syscall_times EXCEPT ![current_task][syscall_id] = @ + 1]
    /\ invoked' = [invoked EXCEPT ![current_task][syscall_id] = @ + 1]
    /\ exclusive' = drop_inner(exclusive_access)
    /\ UNCHANGED <<num_app, tasks, current_task, pc, next, now>>
    /\ UNCHANGED <<mmVars, procVars, ioVars, fsVars>>

\* TaskManager::get_task_syscall_times: the counters of the current task
get_task_syscall_times == syscall_times[current_task]

\* the scheduler without the clock, and the accounting hook
NextAcct ==
    \/ run_first_task
    \/ mark_current_suspended
    \/ mark_current_exited
    \/ run_next_task_find
    \/ run_next_task_switch
    \/ \E syscall_id \in SyscallIds : increase_current_syscall(syscall_id)


(***************************************************************************)
(* The current task's address space and TaskManager::mmap                  *)
(* (os/src/task/mod.rs).                                                   *)
(***************************************************************************)
\* the page size behind the mask 0xFFF
PAGE_SIZE == 4096

\* the virtual page numbers of the modelled window
Pages == 0 .. (MaxPage - 1)

\* no page-table entry: translate returns None
NoPte == [present |-> FALSE, valid |-> FALSE, flags |-> 0]

\* MapPermission bits: R = 1 << 1, W = 1 << 2, X = 1 << 3, U = 1 << 4
PermU == 16

\* a page of the program image, mapped readable, executable, user
ElfPte == [present |-> TRUE, valid |-> TRUE, flags |-> 2 + 8 + PermU]

\* VirtAddr::floor and VirtAddr::ceil
floor(va) == va \div PAGE_SIZE

ceil(va) == (va + PAGE_SIZE - 1) \div PAGE_SIZE

\* VPNRange::new(start_vpn, end_vpn)
VPNRange(start_vpn, end_vpn) == {vpn \in Pages : start_vpn <= vpn /\ vpn < end_vpn}

\* MemorySet::translate(vpn), an Option<PageTableEntry>
translate(vpn) == page_table[vpn]

\* PageTableEntry::is_valid
is_valid(pte) == pte.valid

\* the arguments a task passes to mmap
Starts == {p * PAGE_SIZE : p \in Pages} \cup {PAGE_SIZE + 1}

Lens == {0, PAGE_SIZE, PAGE_SIZE + 1}

\* no permission bit; R and W; R and X; a bit above bit 2 beside R
Ports == {0, 3, 5, 9}

\* a plausible slip: a port without any of R, W, X is let through
mmap_bad_args_NoZeroPort(start, port) ==
    \/ start % PAGE_SIZE # 0
    \/ port \div 8 # 0

\* the check of start and port at the head of mmap:
\* (start & 0xFFF) != 0 || port & !0x7 != 0 || port & 0x7 == 0
mmap_bad_args(start, port) ==
    \/ start % PAGE_SIZE # 0
    \/ port \div 8 # 0
    \/ port % 8 = 0

\* a plausible slip: only the first page of the range is examined
mmap_already_mapped_FirstOnly(start_vpn, end_vpn) ==
    /\ start_vpn \in VPNRange(start_vpn, end_vpn)
    /\ translate(start_vpn).present
    /\ is_valid(translate(start_vpn))

\* the loop of mmap over the range: some page has a valid entry
mmap_already_mapped(start_vpn, end_vpn) ==
    \E vpn \in VPNRange(start_vpn, end_vpn) :
        /\ translate(vpn).present
        /\ is_valid(translate(vpn))

\* a plausible slip: the port is not shifted onto the R, W, X bits
mmap_flags_NoShift(port) == port + PermU

\* MapPermission::from_bits((port << 1) as u8).unwrap() | MapPermission::U
mmap_flags(port) == port * 2 + PermU

\* MemorySet::insert_framed_area: a new region over the pages
\* floor(start_va) .. ceil(end_va), each mapped to a frame of its own.
\* `areas` holds the regions that have pages; a region without pages maps
\* nothing and is not recorded.
insert_framed_area(start_va, end_va, flags) ==
    /\ page_table' = [vpn \in Pages |->
                        IF vpn \in VPNRange(floor(start_va), ceil(end_va))
                        THEN [present |-> TRUE, valid |-> TRUE, flags |-> flags]
                        ELSE page_table[vpn]]
    /\ areas' = IF floor(start_va) < ceil(end_va)
                THEN areas \cup {[start_vpn |-> floor(start_va),
                                  end_vpn |-> ceil(end_va),
                                  map_perm |-> flags]}
                ELSE areas

\* the value mmap returns
mmap_ret(start, len, port) ==
    IF mmap_bad_args(start, port) THEN -1
    ELSE IF mmap_already_mapped(floor(start), ceil(start + len)) THEN -1
    ELSE 0

\* TaskManager::mmap, called by sys_mmap
mmap(start, len, port) ==
    /\ ~mm_panicked
    /\ ceil(start + len) <= MaxPage
    /\ IF mmap_ret(start, len, port) = 0
       THEN insert_framed_area(start, start + len, mmap_flags(port))
       ELSE UNCHANGED <<page_table, areas>>
    /\ mm_last' = [op |-> "mmap", start |-> start, len |-> len, port |-> port,
                   ret |-> mmap_ret(start, len, port)]
    /\ UNCHANGED <<mm_panicked, brkVars>>
    /\ UNCHANGED <<tmVars, procVars, acctVars, ioVars, fsVars>>

\* the entry of a page after PageTable::unmap: the leaf entry is there, cleared
ClearedPte == [present |-> TRUE, valid |-> FALSE, flags |-> 0]

\* a plausible slip: the loop of munmap rejects nothing
munmap_not_mapped_Never(start_vpn, end_vpn) == FALSE

\* the loop of munmap over the range: some page has an entry that is not
\* valid.  A page for which translate returns None passes the loop.
munmap_not_mapped(start_vpn, end_vpn) ==
    \E vpn \in VPNRange(start_vpn, end_vpn) :
        /\ translate(vpn).present
        /\ ~is_valid(translate(vpn))

\* the value munmap returns when it returns
munmap_ret(start, len) ==
    IF start % PAGE_SIZE # 0 THEN -1
    ELSE IF munmap_not_mapped(floor(start), ceil(start + len)) THEN -1
    ELSE 0

\* MemorySet::del_framed_area: the valid pages of floor(start_va) ..
\* ceil(end_va) are unmapped and the record of every region that has a page
\* in the range is removed.
del_framed_area(start_va, end_va) ==
    /\ page_table' = [vpn \in Pages |->
                        IF /\ vpn \in VPNRange(floor(start_va), ceil(end_va))
                           /\ is_valid(page_table[vpn])
                        THEN ClearedPte
                        ELSE page_table[vpn]]
    /\ areas' = {a \in areas :
                    VPNRange(a.start_vpn, a.end_vpn)
                        \cap VPNRange(floor(start_va), ceil(end_va)) = {}}

\* the range handed to del_framed_area holds a page that has no entry: what
\* the removal does then is not defined by its contract
del_framed_area_unmapped(start_va, end_va) ==
    \E vpn \in VPNRange(floor(start_va), ceil(end_va)) : ~translate(vpn).present

\* where a munmap(start, len) stands in a run of calls on one range: 1 right
\* after an mmap(start, len, _) that returned 0, 2 right after a munmap that
\* stood at 1 and returned 0, else 0
munmap_chain(start, len) ==
    IF mm_last.start # start \/ mm_last.len # len \/ mm_last.ret # 0 THEN 0
    ELSE IF mm_last.op = "mmap" THEN 1
    ELSE IF mm_last.op = "munmap" /\ mm_last.chain = 1 THEN 2
    ELSE 0

\* TaskManager::munmap, called by sys_munmap.  When del_framed_area is handed
\* a page without entry it either leaves that page alone or panics.
munmap(start, len) ==
    /\ ~mm_panicked
    /\ ceil(start + len) <= MaxPage
    /\ IF munmap_ret(start, len) = 0
       THEN /\ \E panics \in {FALSE, del_framed_area_unmapped(start, start + len)} :
                  /\ mm_panicked' = panics
                  /\ IF panics
                     THEN UNCHANGED <<page_table, areas>>
                     ELSE del_framed_area(start, start + len)
       ELSE UNCHANGED <<page_table, areas, mm_panicked>>
    /\ mm_last' = [op |-> "munmap", start |-> start, len |-> len, port |-> 0,
                   ret |-> munmap_ret(start, len),
                   chain |-> munmap_chain(start, len)]
    /\ UNCHANGED brkVars
    /\ UNCHANGED <<tmVars, procVars, acctVars, ioVars, fsVars>>

\* the deltas a task passes to sbrk
Sizes == {0} \cup {sign * k : sign \in {1, -1}, k \in {1024, 3072, PAGE_SIZE, 5120}}

\* the address at which the heap would run into the region above it
heap_top == heap_bottom + MaxHeapPages * PAGE_SIZE

\* a plausible slip: the break is moved even when the call fails
change_program_brk_new_Always(size) == program_brk + size

\* TaskControlBlock::change_program_brk: the old break, or None when the new
\* break would lie below the heap bottom or the heap would run into the
\* region above it
change_program_brk(size) ==
    LET new_brk == program_brk + size
    IN  IF new_brk < heap_bottom \/ new_brk > heap_top THEN None ELSE program_brk

\* the break after change_program_brk(size)
change_program_brk_new(size) ==
    IF change_program_brk(size) = None THEN program_brk ELSE program_brk + size

\* sys_sbrk
sys_sbrk(size) ==
    /\ program_brk' = change_program_brk_new(size)
    /\ brk_last' = [op |-> "sbrk", size |-> size,
                    ret |-> IF change_program_brk(size) = None THEN -1
                            ELSE change_program_brk(size),
                    prev_size |-> brk_last.size, prev_ret |-> brk_last.ret]
    /\ UNCHANGED <<heap_bottom, page_table, areas, mm_last, mm_panicked>>
    /\ UNCHANGED <<tmVars, procVars, acctVars, ioVars, fsVars>>

\* a loaded task: the break is at the heap bottom
InitBrk ==
    /\ heap_bottom = 2 * PAGE_SIZE
    /\ program_brk = heap_bottom
    /\ brk_last = [op |-> "none", size |-> 0, ret |-> 0, prev_size |-> 0, prev_ret |-> 0]

InitMM ==
    /\ \E n \in {0, 1} :
          /\ page_table = [vpn \in Pages |-> IF vpn < n THEN ElfPte ELSE NoPte]
          /\ areas = IF n = 0 THEN {}
                     ELSE {[start_vpn |-> 0, end_vpn |-> n, map_perm |-> ElfPte.flags]}
    /\ mm_last = [op |-> "none", start |-> 0, len |-> 0, port |-> 0, ret |-> 0]
    /\ mm_panicked = FALSE
    /\ InitBrk

\* the address space while the model is about something else
RestMM ==
    /\ page_table = [vpn \in Pages |-> NoPte]
    /\ areas = {}
    /\ mm_last = [op |-> "none", start |-> 0, len |-> 0, port |-> 0, ret |-> 0]
    /\ mm_panicked = FALSE
    /\ InitBrk

NextMM ==
    \/ \E start \in Starts, len \in Lens, port \in Ports : mmap(start, len, port)
    \/ \E start \in Starts, len \in Lens : munmap(start, len)

NextBrk ==
    \E size \in Sizes : sys_sbrk(size)


(***************************************************************************)
(* Processes: fork, exit, yield and waitpid                                *)
(* (os/src/syscall/process.rs).  A task control block holds the fields the *)
(* syscalls read and write: task_status, parent, children, exit_code and   *)
(* x[10] of the trap context.                                              *)
(***************************************************************************)
\* the pid of the root task, which adopts the children of an exiting task
INITPROC == 1

\* the pids of the task control blocks that exist
Pids == DOMAIN tcbs

\* the elements of a sequence
Range(seq) == {seq[i] : i \in 1 .. Len(seq)}

\* the exit codes a task passes to exit
ExitCodes == {0, 7}

\* the pid arguments a task passes to waitpid: -1, its own or another pid,
\* or a pid that no task has
PidArgs == {-1} \cup (1 .. (MaxProcs + 1))

\* what a saved a0 register may hold when a task traps into fork
A0Values == {0, 1}

\* pid_alloc: a recycled pid if there is one, else the next fresh one
pid_alloc_pid ==
    IF pid_allocator.recycled # <<>>
    THEN pid_allocator.recycled[Len(pid_allocator.recycled)]
    ELSE pid_allocator.current

pid_alloc_after ==
    IF pid_allocator.recycled # <<>>
    THEN [pid_allocator EXCEPT
            !.recycled = SubSeq(pid_allocator.recycled, 1, Len(pid_allocator.recycled) - 1)]
    ELSE [pid_allocator EXCEPT !.current = pid_allocator.current + 1]

\* PidHandle::drop: the pid goes back to the allocator
pid_dealloc(alloc, pid) == [alloc EXCEPT !.recycled = Append(alloc.recycled, pid)]

\* the application images the loader holds, by name
Apps == {"initproc", "app"}

\* the names a task passes to exec and spawn
Names == Apps \cup {"nosuch"}

\* a plausible slip: a name that is not found gives the image of initproc
get_app_data_by_name_Default(name) ==
    IF name \in Apps THEN <<name>> ELSE <<"initproc">>

\* loader::get_app_data_by_name, an Option: <<data>> or <<>>
get_app_data_by_name(name) ==
    IF name \in Apps THEN <<name>> ELSE <<>>

\* the descriptors a new task control block starts with
StdFds == <<"stdin", "stdout", "stderr">>

\* an empty slot of a file-descriptor table
NoFile == "none"

\* the priority a new task control block starts with
DefaultPriority == 16

\* TaskControlBlock::fork: the new block, a child of `parent`, whose trap
\* context is a copy of the parent's (a0 is the parent's saved x[10]) and
\* whose address space and descriptors are copies of the parent's
fork_child(parent, a0) ==
    [task_status |-> "Ready", parent |-> parent, children |-> <<>>,
     exit_code |-> 0, x10 |-> a0,
     image |-> tcbs[parent].image, fd_table |-> tcbs[parent].fd_table,
     priority |-> DefaultPriority]

\* a plausible slip: the child's return register is left as copied
sys_fork_NoReturnValue(a0) ==
    LET new_pid == pid_alloc_pid
    IN  /\ Cardinality(Pids) < MaxProcs
        /\ tcbs' = [p \in Pids \cup {new_pid} |->
                      IF p = new_pid THEN fork_child(current, a0)
                      ELSE IF p = current
                           THEN [tcbs[p] EXCEPT !.children = Append(@, new_pid)]
                           ELSE tcbs[p]]
        /\ pid_allocator' = pid_alloc_after
        /\ ready_queue' = ready_queue \cup {new_pid}
        /\ proc_last' = [op |-> "fork", caller |-> current, arg |-> 0,
                         ret |-> new_pid, wrote |-> FALSE, value |-> 0]
        /\ UNCHANGED <<current, tmVars, mmVars, acctVars, ioVars, fsVars>>

\* sys_fork
sys_fork(a0) ==
    LET new_pid == pid_alloc_pid
    IN  /\ Cardinality(Pids) < MaxProcs
        \* current_task.fork(), then trap_cx.x[10] = 0
        /\ tcbs' = [p \in Pids \cup {new_pid} |->
                      IF p = new_pid THEN [fork_child(current, a0) EXCEPT !.x10 = 0]
                      ELSE IF p = current
                           THEN [tcbs[p] EXCEPT !.children = Append(@, new_pid)]
                           ELSE tcbs[p]]
        /\ pid_allocator' = pid_alloc_after
        \* add_task(new_task)
        /\ ready_queue' = ready_queue \cup {new_pid}
        /\ proc_last' = [op |-> "fork", caller |-> current, arg |-> 0,
                         ret |-> new_pid, wrote |-> FALSE, value |-> 0]
        /\ UNCHANGED <<current, tmVars, mmVars, acctVars, ioVars, fsVars>>

\* the scheduler takes `nxt` out of the ready queue `rq` and runs it
run_task(blocks, rq, nxt) ==
    /\ tcbs' = [blocks EXCEPT ![nxt].task_status = "Running"]
    /\ ready_queue' = rq \ {nxt}
    /\ current' = nxt

\* sys_yield: suspend_current_and_run_next
sys_yield ==
    /\ \E nxt \in ready_queue \cup {current} :
          run_task([tcbs EXCEPT ![current].task_status = "Ready"],
                   ready_queue \cup {current}, nxt)
    /\ proc_last' = [op |-> "yield", caller |-> current, arg |-> 0,
                     ret |-> 0, wrote |-> FALSE, value |-> 0]
    /\ UNCHANGED <<pid_allocator, tmVars, mmVars, acctVars, ioVars, fsVars>>

\* exit_current_and_run_next(exit_code): the task becomes a zombie holding
\* exit_code, its children go to the root task
exit_current(exit_code) ==
    [p \in Pids |->
        IF p = current
        THEN [tcbs[p] EXCEPT !.task_status = "Zombie",
                             !.exit_code = exit_code,
                             !.children = <<>>]
        ELSE IF p = INITPROC
             THEN [tcbs[p] EXCEPT !.children = @ \o tcbs[current].children]
             ELSE IF p \in Range(tcbs[current].children)
                  THEN [tcbs[p] EXCEPT !.parent = INITPROC]
                  ELSE tcbs[p]]

\* sys_exit
sys_exit(exit_code) ==
    /\ current # INITPROC
    /\ \E nxt \in ready_queue : run_task(exit_current(exit_code), ready_queue, nxt)
    /\ proc_last' = [op |-> "exit", caller |-> current, arg |-> exit_code,
                     ret |-> 0, wrote |-> FALSE, value |-> 0]
    /\ UNCHANGED <<pid_allocator, tmVars, mmVars, acctVars, ioVars, fsVars>>

\* pid == -1 || pid as usize == p.getpid()
waitpid_matches(pid, p) == pid = -1 \/ pid = p

\* a plausible slip: the first test forgets pid == -1
waitpid_any_child_NoMinusOne(blocks, task, pid) ==
    \E i \in 1 .. Len(blocks[task].children) : pid = blocks[task].children[i]

\* inner.children.iter().any(|p| pid == -1 || pid as usize == p.getpid()),
\* with the task control blocks `blocks`
waitpid_any_child(blocks, task, pid) ==
    \E i \in 1 .. Len(blocks[task].children) :
        waitpid_matches(pid, blocks[task].children[i])

\* a plausible slip: the first zombie is taken whatever its pid
waitpid_pair_AnyZombie(blocks, task, pid) ==
    LET hits == {i \in 1 .. Len(blocks[task].children) :
                    blocks[blocks[task].children[i]].task_status = "Zombie"}
    IN  IF hits = {} THEN None ELSE Min(hits)

\* inner.children.iter().enumerate().find(|(_, p)| p.is_zombie() && (pid
\* == -1 || pid as usize == p.getpid())): the index found, or None
waitpid_pair(blocks, task, pid) ==
    LET hits == {i \in 1 .. Len(blocks[task].children) :
                    /\ blocks[blocks[task].children[i]].task_status = "Zombie"
                    /\ waitpid_matches(pid, blocks[task].children[i])}
    IN  IF hits = {} THEN None ELSE Min(hits)

\* Vec::remove(idx)
Remove(seq, idx) == SubSeq(seq, 1, idx - 1) \o SubSeq(seq, idx + 1, Len(seq))

\* a plausible slip: the two sentinels are exchanged
sys_waitpid_ret_Swapped(blocks, task, pid) ==
    IF ~waitpid_any_child(blocks, task, pid) THEN -2
    ELSE IF waitpid_pair(blocks, task, pid) # None
         THEN blocks[task].children[waitpid_pair(blocks, task, pid)]
         ELSE -1

\* the value sys_waitpid returns to `task`
sys_waitpid_ret(blocks, task, pid) ==
    IF ~waitpid_any_child(blocks, task, pid) THEN -1
    ELSE IF waitpid_pair(blocks, task, pid) # None
         THEN blocks[task].children[waitpid_pair(blocks, task, pid)]
         ELSE -2

\* sys_waitpid
sys_waitpid(pid) ==
    LET idx == waitpid_pair(tcbs, current, pid)
        ret == sys_waitpid_ret(tcbs, current, pid)
    IN  /\ IF waitpid_any_child(tcbs, current, pid) /\ idx # None
           THEN LET child == tcbs[current].children[idx]
                IN  \* inner.children.remove(idx); the child is dropped
                    /\ tcbs' = [p \in Pids \ {child} |->
                                  IF p = current
                                  THEN [tcbs[p] EXCEPT !.children = Remove(@, idx)]
                                  ELSE tcbs[p]]
                    /\ pid_allocator' = pid_dealloc(pid_allocator, child)
                    \* *translated_refmut(token, exit_code_ptr) = exit_code
                    /\ proc_last' = [op |-> "waitpid", caller |-> current, arg |-> pid,
                                     ret |-> ret, wrote |-> TRUE,
                                     value |-> tcbs[child].exit_code]
           ELSE /\ UNCHANGED <<tcbs, pid_allocator>>
                /\ proc_last' = [op |-> "waitpid", caller |-> current, arg |-> pid,
                                 ret |-> ret, wrote |-> FALSE, value |-> 0]
        /\ UNCHANGED <<ready_queue, current, tmVars, mmVars, acctVars, ioVars, fsVars>>

\* sys_getpid
sys_getpid ==
    /\ proc_last' = [op |-> "getpid", caller |-> current, arg |-> 0,
                     ret |-> current, wrote |-> FALSE, value |-> 0]
    /\ UNCHANGED <<tcbs, ready_queue, current, pid_allocator, tmVars, mmVars, acctVars, ioVars, fsVars>>

\* a plausible slip: exec gives the task a fresh descriptor table
exec_FreshFds(block, data) ==
    [block EXCEPT !.image = data, !.x10 = 0, !.fd_table = StdFds]

\* TaskControlBlock::exec: the address space is rebuilt from the image and
\* the trap context starts over; the rest of the block stays
exec(block, data) ==
    [block EXCEPT !.image = data, !.x10 = 0]

\* sys_exec
sys_exec(name) ==
    LET data == get_app_data_by_name(name)
    IN  /\ tcbs' = IF data # <<>>
                   THEN [tcbs EXCEPT ![current] = exec(@, data[1])]
                   ELSE tcbs
        /\ proc_last' = [op |-> "exec", caller |-> current, arg |-> 0, name |-> name,
                         ret |-> IF data # <<>> THEN 0 ELSE -1,
                         wrote |-> FALSE, value |-> 0]
        /\ UNCHANGED <<ready_queue, current, pid_allocator, tmVars, mmVars, acctVars, ioVars, fsVars>>

\* TaskControlBlock::spawn: a new block, a child of `parent`, whose address
\* space is built from the image
spawn(parent, data) ==
    [task_status |-> "Ready", parent |-> parent, children |-> <<>>,
     exit_code |-> 0, x10 |-> 0,
     image |-> data, fd_table |-> StdFds, priority |-> DefaultPriority]

\* a plausible slip: the new task is not handed to the scheduler
sys_spawn_NoAddTask(name) ==
    LET data == get_app_data_by_name(name)
        new_pid == pid_alloc_pid
    IN  /\ data = <<>> \/ Cardinality(Pids) < MaxProcs
        /\ IF data # <<>>
           THEN /\ tcbs' = [p \in Pids \cup {new_pid} |->
                              IF p = new_pid THEN spawn(current, data[1])
                              ELSE IF p = current
                                   THEN [tcbs[p] EXCEPT !.children = Append(@, new_pid)]
                                   ELSE tcbs[p]]
                /\ pid_allocator' = pid_alloc_after
                /\ UNCHANGED ready_queue
           ELSE UNCHANGED <<tcbs, pid_allocator, ready_queue>>
        /\ proc_last' = [op |-> "spawn", caller |-> current, arg |-> 0, name |-> name,
                         ret |-> IF data # <<>> THEN new_pid ELSE -1,
                         wrote |-> FALSE, value |-> 0]
        /\ UNCHANGED <<current, tmVars, mmVars, acctVars, ioVars, fsVars>>

\* sys_spawn
sys_spawn(name) ==
    LET data == get_app_data_by_name(name)
        new_pid == pid_alloc_pid
    IN  /\ data = <<>> \/ Cardinality(Pids) < MaxProcs
        /\ IF data # <<>>
           THEN \* current_task.spawn(data)
                /\ tcbs' = [p \in Pids \cup {new_pid} |->
                              IF p = new_pid THEN spawn(current, data[1])
                              ELSE IF p = current
                                   THEN [tcbs[p] EXCEPT !.children = Append(@, new_pid)]
                                   ELSE tcbs[p]]
                /\ pid_allocator' = pid_alloc_after
                \* add_task(task)
                /\ ready_queue' = ready_queue \cup {new_pid}
           ELSE UNCHANGED <<tcbs, pid_allocator, ready_queue>>
        /\ proc_last' = [op |-> "spawn", caller |-> current, arg |-> 0, name |-> name,
                         ret |-> IF data # <<>> THEN new_pid ELSE -1,
                         wrote |-> FALSE, value |-> 0]
        /\ UNCHANGED <<current, tmVars, mmVars, acctVars, ioVars, fsVars>>

\* the priorities a task passes to set_priority
Prios == -1 .. 3

\* a plausible slip: priority 1 is let through
set_priority_rejected_BelowOne(prio) == prio < 1

\* _prio <= 1
set_priority_rejected(prio) == prio <= 1

\* TaskControlBlock::set_priority: the value it returns
set_priority(prio) == prio

\* sys_set_priority
sys_set_priority(prio) ==
    /\ tcbs' = IF set_priority_rejected(prio) THEN tcbs
               ELSE [tcbs EXCEPT ![current].priority = prio]
    /\ proc_last' = [op |-> "set_priority", caller |-> current, arg |-> prio,
                     ret |-> IF set_priority_rejected(prio) THEN -1
                             ELSE set_priority(prio),
                     wrote |-> FALSE, value |-> 0]
    /\ UNCHANGED <<ready_queue, current, pid_allocator, tmVars, mmVars, acctVars, ioVars, fsVars>>

\* the files of the file system, and the paths a task passes to open
Files == {"f0", "f1"}

Paths == Files \cup {"nofile"}

\* fs::open_file, an Option: <<inode>> or <<>>
open_file(path) == IF path \in Files THEN <<path>> ELSE <<>>

\* TaskControlBlockInner::alloc_fd: the first empty slot, else a new slot
\* at the end (descriptors count from 0, the sequence from 1)
alloc_fd(fd_table) ==
    LET holes == {i \in 1 .. Len(fd_table) : fd_table[i] = NoFile}
    IN  IF holes # {} THEN Min(holes) - 1 ELSE Len(fd_table)

\* the table after fd_table[fd] = Some(inode)
fd_table_set(fd_table, fd, inode) ==
    IF fd = Len(fd_table) THEN Append(fd_table, inode)
    ELSE [fd_table EXCEPT ![fd + 1] = inode]

\* sys_open
sys_open(path) ==
    LET inode == open_file(path)
        fd == alloc_fd(tcbs[current].fd_table)
    IN  /\ ~io_panicked
        /\ inode = <<>> \/ fd < MaxFd
        /\ tcbs' = IF inode # <<>>
                   THEN [tcbs EXCEPT ![current].fd_table = fd_table_set(@, fd, inode[1])]
                   ELSE tcbs
        /\ proc_last' = [op |-> "open", caller |-> current, arg |-> 0, name |-> path,
                         ret |-> IF inode # <<>> THEN fd ELSE -1,
                         wrote |-> FALSE, value |-> 0]
        /\ UNCHANGED <<ready_queue, current, pid_allocator, tmVars, mmVars, acctVars, ioVars, fsVars>>

(***************************************************************************)
(* User buffers and the syscalls that write records to them or use file    *)
(* descriptors (os/src/syscall/fs.rs, os/src/syscall/process.rs).          *)
(***************************************************************************)
\* the physical frame of a mapped user page: neighbouring pages lie in
\* frames that are not neighbours
frame_of(vpn) == (vpn * 5 + 3) % 8

RECURSIVE translated_byte_buffer(_, _)
\* mm::translated_byte_buffer(token, ptr, len): the pieces of [ptr, ptr + len)
\* page by page, each with its physical address and its length
translated_byte_buffer(ptr, len) ==
    IF len = 0 THEN <<>>
    ELSE LET vpn == floor(ptr)
             n == Min({len, (vpn + 1) * PAGE_SIZE - ptr})
         IN  <<[pa |-> frame_of(vpn) * PAGE_SIZE + (ptr % PAGE_SIZE), len |-> n]>>
                \o translated_byte_buffer(ptr + n, len - n)

RECURSIVE ByteAt(_, _)
\* byte k (from 0, the lowest) of an unsigned integer
ByteAt(v, k) == IF k = 0 THEN v % 256 ELSE ByteAt(v \div 256, k - 1)

\* the n bytes of an unsigned integer in memory (little endian)
LEBytes(v, n) == [k \in 1 .. n |-> ByteAt(v, k - 1)]

\* TimeVal { sec: us / 1_000_000, usec: us % 1_000_000 }
TimeVal(us) == [sec |-> us \div 1000000, usec |-> us % 1000000]

\* the bytes of a TimeVal (#[repr(C)]: sec, then usec, 8 bytes each)
TimeValBytes(time) == LEBytes(time.sec, 8) \o LEBytes(time.usec, 8)

\* the values get_time_us() returns in the model
Micros == {0, 1000300}

\* the bytes of a TaskInfo: status, syscall_times[0 .. 499], time, each in
\* 8 bytes; counter[id] is the count of syscall id
TaskInfoBytes(status, counter, time) ==
    [k \in 1 .. (8 + 500 * 8 + 8) |->
        LET field == (k - 1) \div 8
            value == IF field = 0 THEN status
                     ELSE IF field <= 500 THEN counter[field - 1]
                     ELSE time
        IN  ByteAt(value, (k - 1) % 8)]

\* File::get_metadata of a regular file: (ino, mode, nlink)
get_metadata(file) ==
    [ino |-> IF file = "f0" THEN 1 ELSE 2, mode |-> 32768, nlink |-> 1]

\* the bytes of Stat::init(ino, mode, nlink): dev (8 bytes, 0), ino (8),
\* mode (4), nlink (4), pad (56)
StatBytes(meta) ==
    LEBytes(0, 8) \o LEBytes(meta.ino, 8) \o LEBytes(meta.mode, 4)
        \o LEBytes(meta.nlink, 4) \o [k \in 1 .. 56 |-> 0]

\* the user addresses passed as destination: the start of page 1; 80 bytes
\* before the end of page 1; 8 bytes before the end of page 1
IoPtrs == {PAGE_SIZE, 2 * PAGE_SIZE - 80, 2 * PAGE_SIZE - 8}

RECURSIVE copy_to_buffers(_, _, _, _)
\* the copy loop of sys_get_time and sys_task_info: for each buffer,
\* write_size = remaining.min(buffer.len()) bytes of the slice go to the
\* start of the buffer; the loop returns when the whole slice is written
copy_to_buffers(buffers, slice, written, writes) ==
    IF buffers = <<>> THEN [completed |-> FALSE, writes |-> writes]
    ELSE LET buffer == Head(buffers)
             remaining == Len(slice) - written
             write_size == Min({remaining, buffer.len})
             w == [pa |-> buffer.pa,
                   bytes |-> SubSeq(slice, written + 1, written + write_size)]
         IN  IF written + write_size = Len(slice)
             THEN [completed |-> TRUE, writes |-> Append(writes, w)]
             ELSE copy_to_buffers(Tail(buffers), slice, written + write_size,
                                  Append(writes, w))

RECURSIVE borrow_panics(_, _)
\* UPSafeCell::exclusive_access on the cell of the current task's control
\* block panics when the cell is borrowed already: whether a sequence of
\* calls does that. "inner_exclusive_access" borrows until "drop";
\* "current_user_token" and a file operation borrow and release inside
borrow_panics(events, held) ==
    IF events = <<>> THEN FALSE
    ELSE LET e == Head(events)
         IN  IF e = "inner_exclusive_access"
             THEN held \/ borrow_panics(Tail(events), TRUE)
             ELSE IF e \in {"current_user_token", "file"}
             THEN held \/ borrow_panics(Tail(events), held)
             ELSE IF e = "drop"
             THEN borrow_panics(Tail(events), FALSE)
             ELSE borrow_panics(Tail(events), held)

\* a syscall of the current task ends in a kernel panic
io_panic(op, fd, ptr, borrows, why) ==
    /\ io_panicked' = TRUE
    /\ proc_last' = [op |-> op, caller |-> current, fd |-> fd, ptr |-> ptr,
                     ret |-> 0, io |-> FALSE, writes |-> <<>>, record |-> <<>>,
                     borrows |-> borrows, why |-> why]

\* a syscall of the current task returns ret
io_return(op, fd, ptr, ret, io, writes, record, borrows) ==
    /\ io_panicked' = io_panicked
    /\ proc_last' = [op |-> op, caller |-> current, fd |-> fd, ptr |-> ptr,
                     ret |-> ret, io |-> io, writes |-> writes, record |-> record,
                     borrows |-> borrows, why |-> "none"]

\* a syscall that made the calls `borrows` and then panics or returns
io_finish(op, fd, ptr, ret, io, writes, record, borrows) ==
    IF borrow_panics(borrows, FALSE)
    THEN io_panic(op, fd, ptr, borrows, "already borrowed")
    ELSE io_return(op, fd, ptr, ret, io, writes, record, borrows)

\* a plausible slip: every file counts as writable
writable_Always(file) == TRUE

\* File::writable: stdout, stderr and the regular files
writable(file) == file \in {"stdout", "stderr"} \cup Files

\* File::readable: stdin and the regular files
readable(file) == file \in {"stdin"} \cup Files

\* the descriptors a task passes: those of a full table, and one beyond
Fds == 0 .. MaxFd

\* the paths a task opens between its file syscalls: a file, and no file
IoPaths == {"f0", "nofile"}

\* the buffer lengths a task passes to read and write
IoLens == {1}

\* sys_write
sys_write(fd, len) ==
    LET fd_table == tcbs[current].fd_table
        head == <<"current_user_token", "inner_exclusive_access">>
    IN  /\ ~io_panicked
        /\ IF fd >= Len(fd_table)
           THEN io_finish("write", fd, 0, -1, FALSE, <<>>, <<>>, head \o <<"drop">>)
           ELSE IF fd_table[fd + 1] # NoFile
           THEN IF ~writable(fd_table[fd + 1])
                THEN io_finish("write", fd, 0, -1, FALSE, <<>>, <<>>, head \o <<"drop">>)
                ELSE io_finish("write", fd, 0, len, TRUE, <<>>, <<>>,
                               head \o <<"drop", "translated_byte_buffer", "file">>)
           ELSE io_finish("write", fd, 0, -1, FALSE, <<>>, <<>>, head \o <<"drop">>)
        /\ UNCHANGED <<tcbs, ready_queue, current, pid_allocator, tmVars, mmVars, acctVars, fsVars>>

\* sys_read; the file hands over between 0 and len bytes
sys_read(fd, len) ==
    LET fd_table == tcbs[current].fd_table
        head == <<"current_user_token", "inner_exclusive_access">>
    IN  /\ ~io_panicked
        /\ IF fd >= Len(fd_table)
           THEN io_finish("read", fd, 0, -1, FALSE, <<>>, <<>>, head \o <<"drop">>)
           ELSE IF fd_table[fd + 1] # NoFile
           THEN IF ~readable(fd_table[fd + 1])
                THEN io_finish("read", fd, 0, -1, FALSE, <<>>, <<>>, head \o <<"drop">>)
                ELSE \E n \in {0, len} :
                        io_finish("read", fd, 0, n, TRUE, <<>>, <<>>,
                                  head \o <<"drop", "translated_byte_buffer", "file">>)
           ELSE io_finish("read", fd, 0, -1, FALSE, <<>>, <<>>, head \o <<"drop">>)
        /\ UNCHANGED <<tcbs, ready_queue, current, pid_allocator, tmVars, mmVars, acctVars, fsVars>>

\* a plausible slip: the slot keeps its file
fd_table_take_Keep(fd_table, fd) == fd_table

\* the table after fd_table[fd].take()
fd_table_take(fd_table, fd) == [fd_table EXCEPT ![fd + 1] = NoFile]

\* sys_close
sys_close(fd) ==
    LET fd_table == tcbs[current].fd_table
        borrows == <<"inner_exclusive_access", "drop">>
    IN  /\ ~io_panicked
        /\ IF fd >= Len(fd_table)
           THEN /\ io_finish("close", fd, 0, -1, FALSE, <<>>, <<>>, borrows)
                /\ UNCHANGED tcbs
           ELSE IF fd_table[fd + 1] = NoFile
           THEN /\ io_finish("close", fd, 0, -1, FALSE, <<>>, <<>>, borrows)
                /\ UNCHANGED tcbs
           ELSE /\ io_finish("close", fd, 0, 0, FALSE, <<>>, <<>>, borrows)
                /\ tcbs' = [tcbs EXCEPT ![current].fd_table = fd_table_take(@, fd)]
        /\ UNCHANGED <<ready_queue, current, pid_allocator, tmVars, mmVars, acctVars, fsVars>>

\* sys_fstat, on a descriptor that is closed, out of range or of a regular
\* file; buffers[0].copy_from_slice(temp_slice) panics unless buffers[0] is
\* as long as the slice
sys_fstat(fd, st) ==
    LET fd_table == tcbs[current].fd_table
        head == <<"current_user_token", "inner_exclusive_access",
                  "translated_byte_buffer">>
    IN  /\ ~io_panicked
        /\ (fd < Len(fd_table)) => fd_table[fd + 1] \in Files \cup {NoFile}
        /\ IF fd >= Len(fd_table)
           THEN io_finish("fstat", fd, st, -1, FALSE, <<>>, <<>>, head \o <<"drop">>)
           ELSE IF fd_table[fd + 1] # NoFile
           THEN LET temp_slice == StatBytes(get_metadata(fd_table[fd + 1]))
                    buffers == translated_byte_buffer(st, Len(temp_slice))
                    borrows == head \o <<"drop", "file">>
                IN  IF borrow_panics(borrows, FALSE)
                    THEN io_panic("fstat", fd, st, borrows, "already borrowed")
                    ELSE IF buffers[1].len # Len(temp_slice)
                    THEN io_panic("fstat", fd, st, borrows, "copy_from_slice")
                    ELSE io_return("fstat", fd, st, 0, TRUE,
                                   <<[pa |-> buffers[1].pa, bytes |-> temp_slice]>>,
                                   temp_slice, borrows)
           ELSE io_finish("fstat", fd, st, -1, FALSE, <<>>, <<>>, head \o <<"drop">>)
        /\ UNCHANGED <<tcbs, ready_queue, current, pid_allocator, tmVars, mmVars, acctVars, fsVars>>

\* sys_get_time; us is what get_time_us() returns
sys_get_time(ts, us) ==
    LET time_slice == TimeValBytes(TimeVal(us))
        buffers == translated_byte_buffer(ts, Len(time_slice))
        borrows == <<"current_user_token", "translated_byte_buffer">>
        copied == copy_to_buffers(buffers, time_slice, 0, <<>>)
    IN  /\ ~io_panicked
        /\ IF borrow_panics(borrows, FALSE)
           THEN io_panic("get_time", -1, ts, borrows, "already borrowed")
           ELSE IF copied.completed
           THEN io_return("get_time", -1, ts, 0, FALSE, copied.writes, time_slice, borrows)
           ELSE io_panic("get_time", -1, ts, borrows, "written has not completed")
        /\ UNCHANGED <<tcbs, ready_queue, current, pid_allocator, tmVars, mmVars, acctVars, fsVars>>

\* sys_task_info: the control block is borrowed (line 176) when
\* current_user_token() is called (line 179)
sys_task_info(ti) ==
    LET borrows == <<"inner_exclusive_access", "current_user_token",
                     "translated_byte_buffer", "drop">>
    IN  /\ ~io_panicked
        /\ IF borrow_panics(borrows, FALSE)
           THEN io_panic("task_info", -1, ti, borrows, "already borrowed")
           ELSE LET counter == [id \in 0 .. 499 |->
                                   IF id \in SyscallIds
                                   THEN syscall_times[current_task][id] ELSE 0]
                    task_slice == TaskInfoBytes(2, counter,
                                      get_time_ms - tasks[current_task].task_start_time)
                    buffers == translated_byte_buffer(ti, Len(task_slice))
                    copied == copy_to_buffers(buffers, task_slice, 0, <<>>)
                IN  IF copied.completed
                    THEN io_return("task_info", -1, ti, 0, FALSE, copied.writes,
                                   task_slice, borrows)
                    ELSE io_panic("task_info", -1, ti, borrows, "written has not completed")
        /\ UNCHANGED <<tcbs, ready_queue, current, pid_allocator, tmVars, mmVars, acctVars, fsVars>>

\* the calls sys_waitpid makes on cells of control blocks: the current
\* task's cell is borrowed for the whole function, the borrows inside are of
\* the children's cells, and the token comes from inner.memory_set.token()
sys_waitpid_borrows ==
    <<"inner_exclusive_access", "child.inner_exclusive_access",
      "child.inner_exclusive_access", "inner.memory_set.token", "translated_refmut",
      "drop">>

\* the file syscalls and the record-writing syscalls of the root task
NextIO ==
    \/ \E path \in IoPaths : sys_open(path)
    \/ \E fd \in Fds : sys_close(fd)
    \/ \E fd \in Fds : \E len \in IoLens : sys_read(fd, len)
    \/ \E fd \in Fds : \E len \in IoLens : sys_write(fd, len)
    \/ \E fd \in Fds : \E st \in IoPtrs : sys_fstat(fd, st)
    \/ \E ts \in IoPtrs : \E us \in Micros : sys_get_time(ts, us)
    \/ \E ti \in IoPtrs : sys_task_info(ti)

\* the root task is running and has no children yet
InitProc ==
    /\ tcbs = [p \in {INITPROC} |->
                 [task_status |-> "Running", parent |-> None, children |-> <<>>,
                  exit_code |-> 0, x10 |-> 0,
                  image |-> "initproc", fd_table |-> StdFds,
                  priority |-> DefaultPriority]]
    /\ ready_queue = {}
    /\ current = INITPROC
    /\ pid_allocator = [current |-> INITPROC + 1, recycled |-> <<>>]
    /\ proc_last = [op |-> "none", caller |-> INITPROC, arg |-> 0,
                    ret |-> 0, wrote |-> FALSE, value |-> 0]

\* the processes while the model is about something else
RestProc == InitProc

NextProc ==
    \/ \E a0 \in A0Values : sys_fork(a0)
    \/ sys_yield
    \/ \E exit_code \in ExitCodes : sys_exit(exit_code)
    \/ \E pid \in PidArgs : sys_waitpid(pid)
    \/ \E name \in Names : sys_spawn(name)

\* exec, spawn, set_priority, getpid and open, called by the root task
NextExec ==
    \/ \E name \in Names : sys_exec(name)
    \/ \E name \in Names : sys_spawn(name)
    \/ \E prio \in Prios : sys_set_priority(prio)
    \/ sys_getpid
    \/ \E path \in Paths : sys_open(path)

(***************************************************************************)
(* The root directory of easy-fs (easy-fs/src/vfs.rs): create, add_link,   *)
(* remove_link, find, ls, get_links.                                       *)
(***************************************************************************)
\* the names a caller passes, the empty string among them
FsNames == {"a", "b", ""}

\* DirEntry::empty(): all bytes zero, that is the empty name and inode 0
DirEntry_empty == [name |-> "", inode_id |-> 0]

\* DirEntry::new(name, inode_id)
DirEntry_new(name, inode_id) == [name |-> name, inode_id |-> inode_id]

\* Inode::find_inode_id(name, disk_inode), an Option<u32>: the inode of the
\* first entry of the directory whose name is `name`
find_inode_id(name, disk_inode) ==
    LET hits == {i \in 1 .. Len(disk_inode) : disk_inode[i].name = name}
    IN  IF hits = {} THEN <<>> ELSE <<disk_inode[Min(hits)].inode_id>>

\* Inode::find(name), an Option<Arc<Inode>>: the inode with the id found
find(name, disk_inode) == find_inode_id(name, disk_inode)

\* Inode::ls: the names of all entries of the directory, in order
ls(disk_inode) == [i \in 1 .. Len(disk_inode) |-> disk_inode[i].name]

\* Inode::get_links(inode_id): the number of entries that carry inode_id
get_links(inode_id, disk_inode) ==
    Cardinality({i \in 1 .. Len(disk_inode) : disk_inode[i].inode_id = inode_id})

\* Inode::create(name): None (-1 in the log) when the name is found, else a
\* fresh inode and a new last entry
create(name) ==
    LET found == find_inode_id(name, dirents)
        new_inode_id == inode_bitmap
    IN  /\ found # <<>> \/ Len(dirents) < MaxDirents
        /\ IF found # <<>>
           THEN /\ fs_last' = [op |-> "create", name |-> name, old |-> "", ret |-> None]
                /\ UNCHANGED <<dirents, inode_bitmap>>
           ELSE /\ inode_bitmap' = inode_bitmap + 1
                /\ dirents' = Append(dirents, DirEntry_new(name, new_inode_id))
                /\ fs_last' = [op |-> "create", name |-> name, old |-> "",
                               ret |-> new_inode_id]
        /\ UNCHANGED <<tmVars, mmVars, procVars, acctVars, ioVars>>

\* Inode::add_link(old_name, new_name): a new last entry with the inode of
\* old_name, or -1 when old_name is not found
add_link(old_name, new_name) ==
    LET found == find_inode_id(old_name, dirents)
    IN  /\ found = <<>> \/ Len(dirents) < MaxDirents
        /\ IF found # <<>>
           THEN /\ dirents' = Append(dirents, DirEntry_new(new_name, found[1]))
                /\ fs_last' = [op |-> "add_link", name |-> new_name, old |-> old_name,
                               ret |-> 0]
           ELSE /\ fs_last' = [op |-> "add_link", name |-> new_name, old |-> old_name,
                               ret |-> -1]
                /\ UNCHANGED dirents
        /\ UNCHANGED inode_bitmap
        /\ UNCHANGED <<tmVars, mmVars, procVars, acctVars, ioVars>>

\* Inode::remove_link(name): every entry named `name` is overwritten with
\* the empty entry; the directory keeps its size and no inode is freed
remove_link(name) ==
    LET deleted == \E i \in 1 .. Len(dirents) : dirents[i].name = name
    IN  /\ dirents' = [i \in 1 .. Len(dirents) |->
                          IF dirents[i].name = name THEN DirEntry_empty ELSE dirents[i]]
        /\ fs_last' = [op |-> "remove_link", name |-> name, old |-> "",
                       ret |-> IF deleted THEN 0 ELSE -1]
        /\ UNCHANGED inode_bitmap
        /\ UNCHANGED <<tmVars, mmVars, procVars, acctVars, ioVars>>

NextFs ==
    \/ \E name \in FsNames : create(name)
    \/ \E old_name \in FsNames : \E new_name \in FsNames : add_link(old_name, new_name)
    \/ \E name \in FsNames : remove_link(name)

\* no file syscall has panicked
RestIO == io_panicked = FALSE

\* the root directory of a freshly made file system: no entry, and only the
\* root inode (inode 0) allocated
RestFs ==
    /\ dirents = <<>>
    /\ inode_bitmap = 1
    /\ fs_last = [op |-> "none", name |-> "", old |-> "", ret |-> 0]

Init == InitTM /\ RestMM /\ RestProc /\ InitAcct /\ RestIO /\ RestFs

Next == NextTM

Spec == Init /\ [][Next]_vars

\* the current task's memory syscalls
InitSpecMM == RestTM /\ InitMM /\ RestProc /\ InitAcct /\ RestIO /\ RestFs

SpecMM == InitSpecMM /\ [][NextMM]_vars

\* the current task's program break
InitSpecBrk == RestTM /\ RestMM /\ RestProc /\ InitAcct /\ RestIO /\ RestFs

SpecBrk == InitSpecBrk /\ [][NextBrk]_vars

\* the process syscalls
InitSpecProc == RestTM /\ RestMM /\ InitProc /\ InitAcct /\ RestIO /\ RestFs

SpecProc == InitSpecProc /\ [][NextProc]_vars

\* the process syscalls that replace, create and configure tasks
SpecExec == InitSpecProc /\ [][NextExec]_vars

\* the file syscalls and the record-writing syscalls
SpecIO == InitSpecProc /\ [][NextIO]_vars

\* the root directory of the file system
InitSpecFs == RestTM /\ RestMM /\ RestProc /\ InitAcct /\ RestIO /\ RestFs

SpecFs == InitSpecFs /\ [][NextFs]_vars

\* the scheduler with syscall accounting
SpecAcct == Init /\ [][NextAcct]_vars

\* the scheduler under the assumption that every Running task eventually
\* yields or exits, and that the kernel finishes what it started
SpecFair ==
    /\ Init /\ [][Next]_vars
    /\ WF_vars(run_first_task)
    /\ WF_vars(mark_current_suspended \/ mark_current_exited)
    /\ WF_vars(run_next_task_find)
    /\ WF_vars(run_next_task_switch)

TypeOK ==
    /\ num_app \in 1 .. MaxApp
    /\ tasks \in [TaskIds -> [task_status : TaskStatus, task_start_time : 0 .. MaxTime]]
    /\ current_task \in TaskIds
    /\ pc \in {"boot", "user", "marked", "found", "panicked"}
    /\ next \in TaskIds \cup {None}
    /\ now \in 0 .. MaxTime
    /\ exclusive \in BOOLEAN

(***************************************************************************)
(* Scheduler claims (os/src/task/mod.rs).                                  *)
(***************************************************************************)
Ready(i) == tasks[i].task_status = "Ready"

RunningTasks == {i \in TaskIds : tasks[i].task_status = "Running"}

NoneExited == \A i \in TaskIds : tasks[i].task_status # "Exited"

\* the number of steps from index c forward (wrapping) to index r, where
\* reaching c itself again takes a full round
Dist(c, r) == IF r > c THEN r - c ELSE r - c + num_app

\* C1: whenever a task runs in user mode exactly one task is Running and it
\* is tasks[current_task]; between mark_current_suspended/mark_current_exited
\* and the status update of run_next_task no task is Running; two tasks are
\* never Running at once.
C1_ExactlyOneRunning ==
    /\ Cardinality(RunningTasks) <= 1
    /\ pc = "user" => RunningTasks = {current_task}
    /\ pc \in {"marked", "found"} => RunningTasks = {}

\* C1 witness: a later task runs after another task has exited
C1_Witness ==
    /\ pc = "user"
    /\ current_task # 0
    /\ RunningTasks = {current_task}
    /\ \E i \in TaskIds : tasks[i].task_status = "Exited"

\* C2: run_first_task starts task 0, and as long as no task has exited every
\* switch goes from task i to task (i + 1) mod num_app, so with three tasks
\* the Running task goes A, B, C, A, B, C, ...; under fair yielding every
\* task is Running again and again.
C2_RoundRobinOrder ==
    /\ [][/\ (pc = "boot" /\ pc' = "user")
             => (current_task' = 0 /\ tasks'[0].task_status = "Running")
          /\ (pc = "found" /\ pc' = "user" /\ NoneExited)
             => (/\ current_task' = (current_task + 1) % num_app
                 /\ tasks'[current_task'].task_status = "Running")]_vars
    /\ \A i \in 0 .. 2 :
          ([]NoneExited /\ [](num_app = 3)) => []<>(pc = "user" /\ current_task = i)

\* C2 witness: three tasks, none exited, and the third one is running, which
\* it does only after the first and the second have run and yielded
C2_Witness ==
    /\ num_app = 3
    /\ NoneExited
    /\ pc = "user"
    /\ current_task = 2
    /\ tasks[0].task_status = "Ready"
    /\ tasks[1].task_status = "Ready"

\* C3: the value find_next_task returns is None exactly when no task is
\* Ready; otherwise it is a Ready task and no task met earlier in the scan
\* current+1, current+2, ..., current (wrapping) is Ready; the call changes
\* no task and not current_task.
C3_FindNextTask ==
    [][(pc = "marked" /\ pc' = "found") =>
         /\ (next' = None) <=> (\A i \in TaskIds : ~Ready(i))
         /\ next' # None =>
              /\ next' \in TaskIds
              /\ Ready(next')
              /\ \A d \in 1 .. num_app :
                    d < Dist(current_task, next') => ~Ready((current_task + d) % num_app)
         /\ tasks' = tasks
         /\ current_task' = current_task]_vars

\* C3 witness: with three tasks the scan passed over the task after current,
\* which is not Ready, and returned the one after it
C3_Witness ==
    /\ pc = "found"
    /\ next # None
    /\ num_app = 3
    /\ Dist(current_task, next) = 2

\* C4: under the assumption that every Running task eventually yields or
\* exits, a task that is Ready is eventually Running.
C4_StarvationFree ==
    \A i \in 0 .. (MaxApp - 1) :
        (i < num_app /\ tasks[i].task_status = "Ready")
            ~> (i < num_app /\ tasks[i].task_status = "Running")

\* C4 witness: task 0 runs again after task 1 has exited and task 2 has run
\* and been switched out (its start time is recorded then), so task 0 waited
\* Ready in between
C4_Witness ==
    /\ num_app = 3
    /\ pc = "user"
    /\ current_task = 0
    /\ tasks[0].task_status = "Running"
    /\ tasks[1].task_status = "Exited"
    /\ tasks[2].task_status = "Ready"
    /\ tasks[2].task_start_time # 0

\* C5: a step changes a task's status only from Ready to Running, from
\* Running to Ready or from Running to Exited; an Exited task stays Exited,
\* and the task find_next_task selects is never an Exited one.
C5_StatusTransitions ==
    [][/\ \A i \in TaskIds :
             \/ tasks'[i].task_status = tasks[i].task_status
             \/ <<tasks[i].task_status, tasks'[i].task_status>> \in
                   {<<"Ready", "Running">>, <<"Running", "Ready">>, <<"Running", "Exited">>}
       /\ \A i \in TaskIds :
             tasks[i].task_status = "Exited" => tasks'[i].task_status = "Exited"
       /\ next' # None => tasks'[next'].task_status # "Exited"
       /\ current_task' # current_task => tasks[current_task'].task_status = "Ready"]_vars

\* C5 witness: an exited task is still Exited after the others yielded and
\* ran again
C5_Witness ==
    /\ num_app = 3
    /\ pc = "user"
    /\ tasks[0].task_status = "Exited"
    /\ tasks[1].task_status = "Exited"
    /\ current_task = 2
    /\ tasks[2].task_start_time # 0

\* C14: whenever run_first_task or run_next_task hands the processor to a
\* task through __switch, TaskManager.inner is not borrowed; it is not
\* borrowed while a task runs in user mode, so the task's next entry into the
\* task manager can borrow it.
C14_NoBorrowAcrossSwitch ==
    /\ [][(pc \in {"boot", "found"} /\ pc' = "user") => ~exclusive']_vars
    /\ [](pc = "user" => ~exclusive)

\* C14 witness: task 1, switched to by run_next_task, has entered the task
\* manager again and borrowed and released TaskManager.inner
C14_Witness ==
    /\ pc = "marked"
    /\ current_task = 1
    /\ tasks[1].task_status = "Ready"
    /\ tasks[0].task_status = "Ready"
    /\ ~exclusive

\* C15 as claimed: a task whose timestamp is not recorded yet gets the time
\* of the clock as its task_start_time in the step that makes it Running,
\* and a recorded timestamp never changes.
C15_FirstScheduledTimestamp ==
    [][\A i \in TaskIds :
          /\ (/\ tasks[i].task_status # "Running"
              /\ tasks'[i].task_status = "Running"
              /\ tasks[i].task_start_time = 0) =>
                tasks'[i].task_start_time = get_time_ms
          /\ tasks[i].task_start_time # 0 =>
                tasks'[i].task_start_time = tasks[i].task_start_time]_vars

(***************************************************************************)
(* Process claims (os/src/syscall/process.rs).                             *)
(***************************************************************************)
\* the children of task t, as a set
Children(t) == Range(tcbs[t].children)

IsZombie(p) == tcbs[p].task_status = "Zombie"

\* the step is a call of sys_waitpid (proc_last' describes it)
WaitpidStep == proc_last'.op = "waitpid"

\* C6: a task that exits with a code becomes a zombie holding that code; when
\* its parent then calls waitpid with the child's pid, the call returns that
\* pid, stores the child's exit code through exit_code_ptr and takes the
\* child out of the children list, and the same call made again would
\* return -1.
C6_ExitThenWaitpid ==
    [][/\ proc_last'.op = "exit" =>
             /\ tcbs'[proc_last'.caller].task_status = "Zombie"
             /\ tcbs'[proc_last'.caller].exit_code = proc_last'.arg
       /\ (/\ WaitpidStep
           /\ proc_last'.arg \in Children(current)
           /\ IsZombie(proc_last'.arg)) =>
             /\ proc_last'.ret = proc_last'.arg
             /\ proc_last'.wrote
             /\ proc_last'.value = tcbs[proc_last'.arg].exit_code
             /\ proc_last'.arg \notin Range(tcbs'[current].children)
             /\ Len(tcbs'[current].children) = Len(tcbs[current].children) - 1
             /\ sys_waitpid_ret(tcbs', current, proc_last'.arg) = -1]_vars

\* C6 witness: a parent reaped, by pid, a child that had exited with code 7,
\* and still has another child
C6_Witness ==
    /\ proc_last.op = "waitpid"
    /\ proc_last.arg # -1
    /\ proc_last.ret = proc_last.arg
    /\ proc_last.wrote
    /\ proc_last.value = 7
    /\ tcbs[current].children # <<>>
    /\ sys_waitpid_ret(tcbs, current, proc_last.ret) = -1

\* the caller has a child that has not exited and that the argument matches
LiveChildMatches ==
    \E k \in Children(current) :
        ~IsZombie(k) /\ (proc_last'.arg = -1 \/ proc_last'.arg = k)

\* C7 as claimed: a waitpid(-1) or waitpid(child) made while a forked child
\* has not exited returns -2 and removes nothing.
C7_Original ==
    [][(WaitpidStep /\ LiveChildMatches) =>
          /\ proc_last'.ret = -2
          /\ tcbs' = tcbs]_vars

\* C7 amended: a waitpid(-1) or waitpid(child) made while a forked child has
\* not exited never returns -1; waitpid(child) returns -2 and removes
\* nothing, and so does waitpid(-1) unless another child of the caller is a
\* zombie, in which case that zombie is reaped and the live child stays.
C7_ForkThenWaitpid ==
    [][(WaitpidStep /\ LiveChildMatches) =>
          /\ proc_last'.ret # -1
          /\ (proc_last'.arg # -1 \/ \A k \in Children(current) : ~IsZombie(k)) =>
                /\ proc_last'.ret = -2
                /\ ~proc_last'.wrote
                /\ tcbs' = tcbs
                /\ pid_allocator' = pid_allocator
          /\ (proc_last'.arg = -1 /\ \E k \in Children(current) : IsZombie(k)) =>
                /\ proc_last'.ret \in Children(current)
                /\ IsZombie(proc_last'.ret)
                /\ \A k \in Children(current) :
                      ~IsZombie(k) => k \in Range(tcbs'[current].children)]_vars

\* C7 witness: waitpid(-1) returned -2 to a parent whose child has run and
\* forked a child of its own
C7_Witness ==
    /\ proc_last.op = "waitpid"
    /\ proc_last.arg = -1
    /\ proc_last.ret = -2
    /\ \E k \in Children(current) : ~IsZombie(k) /\ tcbs[k].children # <<>>

\* C8: sys_waitpid returns -1 exactly when no child of the caller matches
\* pid, and -2 exactly when a child matches and no matching child is a
\* zombie; with either value the task control blocks stay as they were and
\* nothing is stored through exit_code_ptr.
C8_WaitpidSentinels ==
    [][WaitpidStep =>
          LET matching == {k \in Children(current) :
                              proc_last'.arg = -1 \/ proc_last'.arg = k}
          IN  /\ (proc_last'.ret = -1) <=> (matching = {})
              /\ (proc_last'.ret = -2) <=>
                    (matching # {} /\ \A k \in matching : ~IsZombie(k))
              /\ proc_last'.ret \in {-1, -2} =>
                    /\ tcbs' = tcbs
                    /\ pid_allocator' = pid_allocator
                    /\ ~proc_last'.wrote]_vars

\* C8 witness: a task that has children asked for a task that exists but is
\* not its child, and got -1
C8_Witness ==
    /\ proc_last.op = "waitpid"
    /\ proc_last.ret = -1
    /\ proc_last.arg \in Pids
    /\ tcbs[current].children # <<>>

\* C9: sys_fork adds exactly one task control block; its x[10] is 0, the
\* value returned to the caller is its pid, which is not 0 and not the
\* caller's pid; it is Ready, in the ready queue, a child of the caller, and
\* a waitpid of the caller for it finds it (-2, not -1).
C9_Fork ==
    [][proc_last'.op = "fork" =>
          LET n == proc_last'.ret
          IN  /\ n \notin Pids
              /\ DOMAIN tcbs' = Pids \cup {n}
              /\ n # 0
              /\ n # current
              /\ current' = current
              /\ tcbs'[n].x10 = 0
              /\ tcbs'[n].task_status = "Ready"
              /\ n \in ready_queue'
              /\ tcbs'[n].parent = current
              /\ tcbs'[current].children = Append(tcbs[current].children, n)
              /\ \A p \in Pids \ {current} : tcbs'[p] = tcbs[p]
              /\ sys_waitpid_ret(tcbs', current, n) = -2
              /\ sys_waitpid_ret(tcbs', current, -1) # -1]_vars

\* C9 witness: a task other than the root forked, its child got a recycled
\* pid and waits in the ready queue
C9_Witness ==
    /\ proc_last.op = "fork"
    /\ proc_last.caller # INITPROC
    /\ proc_last.ret \in ready_queue
    /\ proc_last.ret < proc_last.caller
    /\ tcbs[proc_last.ret].x10 = 0
    /\ tcbs[proc_last.ret].task_status = "Ready"

\* the process state but for the log of the last syscall
procState == <<tcbs, ready_queue, current, pid_allocator>>

\* C17: a sys_exec that returns 0 leaves the caller's descriptor table as it
\* was, slot by slot, and leaves the caller the current task under the same
\* pid among the same task control blocks; a sys_getpid right after it
\* returns what a sys_getpid before it returned, the caller's pid.
C17_ExecKeepsPidAndFds ==
    [][/\ (proc_last'.op = "exec" /\ proc_last'.ret = 0) =>
             /\ tcbs'[current].fd_table = tcbs[current].fd_table
             /\ current' = current
             /\ Pids' = Pids
             /\ proc_last'.caller = current
             /\ proc_last.op = "getpid" => proc_last.ret = current'
       /\ (/\ proc_last.op = "exec"
           /\ proc_last.ret = 0
           /\ proc_last'.op = "getpid") =>
             proc_last'.ret = proc_last.caller]_vars

\* C17 witness: the root task has opened f1 as descriptor 3 and then
\* replaced its image by that of app
C17_Witness ==
    /\ proc_last.op = "exec"
    /\ proc_last.ret = 0
    /\ tcbs[current].image = "app"
    /\ tcbs[current].fd_table = Append(StdFds, "f1")

\* C18: a sys_exec or sys_spawn with a name for which the loader has no
\* image returns -1 and changes no task control block, nor the ready queue,
\* the current task or the pid allocator.
C18_UnknownName ==
    [][(/\ proc_last'.op \in {"exec", "spawn"}
        /\ proc_last'.name \notin Apps) =>
          /\ proc_last'.ret = -1
          /\ procState' = procState]_vars

\* C18 witness: a task with a child, an opened file and another image than
\* the one it started with has called spawn with an unknown name
C18_Witness ==
    /\ proc_last.op = "spawn"
    /\ proc_last.name = "nosuch"
    /\ proc_last.ret = -1
    /\ tcbs[current].children # <<>>
    /\ tcbs[current].image = "app"
    /\ Len(tcbs[current].fd_table) > Len(StdFds)

\* C19: a sys_spawn that does not return -1 returns the pid of exactly one
\* new task control block, which is Ready, in the ready queue, built from
\* the named image and the last of the caller's children; the caller stays
\* the current task and nothing else of it or of any other task changes; a
\* waitpid of the caller for that pid finds a matching child (here: one that
\* has not exited, -2).
C19_Spawn ==
    [][(proc_last'.op = "spawn" /\ proc_last'.ret # -1) =>
          LET child == proc_last'.ret
          IN  /\ child \notin Pids
              /\ Pids' = Pids \cup {child}
              /\ tcbs'[child].task_status = "Ready"
              /\ tcbs'[child].parent = current
              /\ tcbs'[child].image = proc_last'.name
              /\ child \in ready_queue'
              /\ ready_queue' = ready_queue \cup {child}
              /\ tcbs'[current] = [tcbs[current] EXCEPT !.children = Append(@, child)]
              /\ \A p \in Pids \ {current} : tcbs'[p] = tcbs[p]
              /\ current' = current
              /\ proc_last'.caller = current
              /\ sys_waitpid_ret(tcbs', current, child) = -2]_vars

\* C19 witness: a task that is not the root task has spawned app and its
\* parent is not the child's parent
C19_Witness ==
    /\ proc_last.op = "spawn"
    /\ proc_last.ret # -1
    /\ current # INITPROC
    /\ proc_last.caller = current
    /\ tcbs[proc_last.ret].image = "app"
    /\ tcbs[current].image = "initproc"
    /\ tcbs[proc_last.ret].parent = current

\* C20: sys_set_priority with a value of 1 or less returns -1 and leaves the
\* priority as it was; with a value of 2 or more it makes the value the
\* caller's priority and does not return -1.  No other task is touched.
C20_SetPriority ==
    [][proc_last'.op = "set_priority" =>
          /\ proc_last'.arg <= 1 =>
                /\ proc_last'.ret = -1
                /\ tcbs' = tcbs
          /\ proc_last'.arg >= 2 =>
                /\ proc_last'.ret # -1
                /\ tcbs'[current].priority = proc_last'.arg
                /\ tcbs' = [tcbs EXCEPT ![current].priority = proc_last'.arg]]_vars

\* C20 witness: a task whose priority was set to 3 has asked for priority 1
\* and still has priority 3
C20_Witness ==
    /\ proc_last.op = "set_priority"
    /\ proc_last.arg = 1
    /\ proc_last.ret = -1
    /\ tcbs[current].priority = 3

(***************************************************************************)
(* Memory claims (TaskManager::mmap, os/src/task/mod.rs).                  *)
(***************************************************************************)
\* the pages floor(start) .. ceil(start + len) of a call
MmapRange(call) == VPNRange(floor(call.start), ceil(call.start + call.len))

\* C10: when an mmap has returned 0, an mmap that follows it at once and
\* whose page range shares a page with that of the first returns -1 and
\* changes neither the page table nor the regions.
C10_OverlappingMmap ==
    [][(/\ mm_last.op = "mmap"
        /\ mm_last.ret = 0
        /\ mm_last'.op = "mmap"
        /\ MmapRange(mm_last) \cap MmapRange(mm_last') # {}) =>
          /\ mm_last'.ret = -1
          /\ page_table' = page_table
          /\ areas' = areas]_vars

\* C10 witness: an mmap with an aligned start and a valid port failed over a
\* range of two pages of which one was mapped by an earlier mmap and the
\* other is not mapped
C10_Witness ==
    /\ mm_last.op = "mmap"
    /\ mm_last.ret = -1
    /\ ~mmap_bad_args(mm_last.start, mm_last.port)
    /\ \E vpn \in MmapRange(mm_last) :
          page_table[vpn].valid /\ page_table[vpn].flags # ElfPte.flags
    /\ \E vpn \in MmapRange(mm_last) : ~page_table[vpn].present

C12_MmapBadArgs ==
    [][(/\ mm_last'.op = "mmap"
        /\ \/ mm_last'.start % PAGE_SIZE # 0
           \/ mm_last'.port % 8 = 0) =>
          /\ mm_last'.ret = -1
          /\ page_table' = page_table
          /\ areas' = areas]_vars

\* C12 witness: an mmap with an aligned start over pages that are not mapped
\* failed because its port is 0
C12_Witness ==
    /\ mm_last.op = "mmap"
    /\ mm_last.ret = -1
    /\ mm_last.start % PAGE_SIZE = 0
    /\ mm_last.port = 0
    /\ MmapRange(mm_last) # {}
    /\ \A vpn \in MmapRange(mm_last) : ~page_table[vpn].present

\* C13 as claimed: a munmap over a range with a page that is not mapped,
\* whether its entry is not valid or it has no entry, returns -1, does not
\* panic and changes neither the page table nor the regions.
C13_MunmapUnmapped ==
    [][(/\ mm_last'.op = "munmap"
        /\ \E vpn \in MmapRange(mm_last') : ~is_valid(page_table[vpn])) =>
          /\ mm_last'.ret = -1
          /\ ~mm_panicked'
          /\ page_table' = page_table
          /\ areas' = areas]_vars

\* bit k of n
Bit(n, k) == (n \div (2 ^ k)) % 2

\* C25: an mmap that returns 0 makes every page of floor(start) ..
\* ceil(start + len) valid with U (bit 4) set and R, W, X (bits 1, 2, 3) as
\* bits 0, 1, 2 of port, and changes the entry of no other page; an mmap whose
\* port has a bit above bit 2 returns -1; an mmap with len = 0 that returns 0
\* maps no page.
C25_MmapMapsRange ==
    [][mm_last'.op = "mmap" =>
          /\ mm_last'.ret = 0 =>
                \A vpn \in Pages :
                    IF vpn \in MmapRange(mm_last')
                    THEN /\ page_table'[vpn].present
                         /\ is_valid(page_table'[vpn])
                         /\ Bit(page_table'[vpn].flags, 4) = 1
                         /\ \A k \in 0 .. 2 :
                               Bit(page_table'[vpn].flags, k + 1) = Bit(mm_last'.port, k)
                         /\ page_table'[vpn].flags < 32
                    ELSE page_table'[vpn] = page_table[vpn]
          /\ mm_last'.port \div 8 # 0 => mm_last'.ret = -1
          /\ (mm_last'.len = 0 /\ mm_last'.ret = 0) =>
                /\ MmapRange(mm_last') = {}
                /\ page_table' = page_table]_vars

\* C25 witness: an mmap of 4097 bytes on a page boundary has mapped two pages
\* readable and executable beside a page that an earlier munmap cleared
C25_Witness ==
    /\ mm_last.op = "mmap"
    /\ mm_last.ret = 0
    /\ mm_last.len = PAGE_SIZE + 1
    /\ mm_last.port = 5
    /\ \A vpn \in MmapRange(mm_last) : page_table[vpn].flags = 2 + 8 + PermU
    /\ \E vpn \in Pages \ MmapRange(mm_last) : page_table[vpn] = ClearedPte

(***************************************************************************)
(* Syscall accounting claims (os/src/task/mod.rs).                         *)
(***************************************************************************)
\* C23: a step of increase_current_syscall(id) adds exactly 1 to counter id of
\* the task that trapped and changes no other counter of any task, no other
\* step changes a counter, and so the counters get_task_syscall_times reads
\* for the current task equal the number of times that task invoked each id.
C23_SyscallAccounting ==
    /\ [](get_task_syscall_times = invoked[current_task])
    /\ [][\A i \in DOMAIN tasks : \A id \in SyscallIds :
             /\ syscall_times'[i][id] - syscall_times[i][id]
                  = invoked'[i][id] - invoked[i][id]
             /\ invoked'[i][id] - invoked[i][id] \in {0, 1}
             /\ (invoked'[i][id] = invoked[i][id] + 1) =>
                   /\ i = current_task
                   /\ \A j \in DOMAIN tasks : \A jd \in SyscallIds :
                         <<j, jd>> # <<i, id>> =>
                             syscall_times'[j][jd] = syscall_times[j][jd]]_vars

\* C23 witness: task 1 runs after task 0 was suspended, both have made
\* syscalls, and task 1 has made the same syscall twice
C23_Witness ==
    /\ num_app >= 2
    /\ current_task = 1
    /\ pc = "user"
    /\ syscall_times[0][124] = 1
    /\ syscall_times[1][169] = 2
    /\ syscall_times[1][124] = 0

(***************************************************************************)
(* Program break claims (sys_sbrk, os/src/syscall/process.rs).             *)
(***************************************************************************)
\* C16: when sbrk(k) has succeeded, an sbrk(-k) that follows at once returns
\* the break the first call reached and puts the break back where it was
\* before the first call, and an sbrk(0) after that returns that break; an
\* sbrk that returns -1 leaves the break where it is.
C16_SbrkRoundTrip ==
    [][brk_last'.op = "sbrk" =>
          /\ (/\ brk_last.op = "sbrk"
              /\ brk_last.ret # -1
              /\ brk_last'.size = -brk_last.size) =>
                /\ brk_last'.ret = brk_last.ret + brk_last.size
                /\ program_brk' = brk_last.ret
          /\ (/\ brk_last.op = "sbrk"
              /\ brk_last.ret # -1
              /\ brk_last.prev_ret # -1
              /\ brk_last.size = -brk_last.prev_size
              /\ brk_last.prev_size # 0
              /\ brk_last'.size = 0) =>
                brk_last'.ret = brk_last.prev_ret
          /\ brk_last'.ret = -1 => program_brk' = program_brk]_vars

\* C16 witness: sbrk(+5120) from a break above the heap bottom, then
\* sbrk(-5120), then sbrk(0)
C16_Witness ==
    /\ brk_last.op = "sbrk"
    /\ brk_last.size = 0
    /\ brk_last.prev_size = -5120
    /\ brk_last.prev_ret = brk_last.ret + 5120
    /\ brk_last.ret # heap_bottom
    /\ program_brk = brk_last.ret

(***************************************************************************)
(* Claims on user buffers and file descriptors (os/src/syscall/fs.rs,      *)
(* os/src/syscall/process.rs).                                             *)
(***************************************************************************)
RECURSIVE FlattenWrites(_)
\* the bytes of a sequence of writes, in the order they were made
FlattenWrites(writes) ==
    IF writes = <<>> THEN <<>> ELSE Head(writes).bytes \o FlattenWrites(Tail(writes))

\* the writes went to the pieces of [ptr, ptr + len), one after the other,
\* each at the start of its piece
WritesFollow(writes, ptr, len) ==
    LET buffers == translated_byte_buffer(ptr, len)
    IN  /\ Len(writes) = Len(buffers)
        /\ \A i \in 1 .. Len(writes) :
              /\ writes[i].pa = buffers[i].pa
              /\ Len(writes[i].bytes) = buffers[i].len

FdClosed(fd_table, fd) == fd >= Len(fd_table) \/ fd_table[fd + 1] = NoFile

\* C22: sys_read, sys_write, sys_close and sys_fstat on a descriptor that is
\* out of range or whose slot is empty return -1, do not panic and leave the
\* descriptor table as it was; sys_write on a file that is not writable and
\* sys_read on a file that is not readable return -1 without any I/O.
C22_BadFd ==
    [][proc_last'.op \in {"read", "write", "close", "fstat"} =>
          LET fd == proc_last'.fd
              fd_table == tcbs[current].fd_table
          IN  /\ FdClosed(fd_table, fd) =>
                    /\ proc_last'.ret = -1
                    /\ ~io_panicked'
                    /\ ~proc_last'.io
                    /\ proc_last'.writes = <<>>
                    /\ tcbs' = tcbs
              /\ (/\ ~FdClosed(fd_table, fd)
                  /\ \/ proc_last'.op = "write" /\ fd_table[fd + 1] = "stdin"
                     \/ proc_last'.op = "read" /\ fd_table[fd + 1] \in {"stdout", "stderr"})
                   => /\ proc_last'.ret = -1
                      /\ ~io_panicked'
                      /\ ~proc_last'.io
                      /\ tcbs' = tcbs]_vars

\* C22 witness: a read of descriptor 3, whose slot was emptied by a close,
\* has returned -1 while stdin is still open
C22_Witness ==
    /\ proc_last.op = "read"
    /\ proc_last.fd = 3
    /\ proc_last.ret = -1
    /\ Len(tcbs[current].fd_table) = 4
    /\ tcbs[current].fd_table[4] = NoFile
    /\ tcbs[current].fd_table[1] = "stdin"
    /\ ~io_panicked

\* C24: sys_fstat on an open descriptor returns 0 and has written the 80
\* bytes of the Stat to the user buffer, wherever the buffer lies, also on
\* two pages; it never writes a part only and never panics.
C24_FstatAnyAddress ==
    [][(/\ proc_last'.op = "fstat"
        /\ ~FdClosed(tcbs[current].fd_table, proc_last'.fd)) =>
          /\ ~io_panicked'
          /\ proc_last'.ret = 0
          /\ Len(proc_last'.record) = 80
          /\ FlattenWrites(proc_last'.writes) = proc_last'.record
          /\ WritesFollow(proc_last'.writes, proc_last'.ptr, 80)]_vars

\* C26: sys_close on an open descriptor returns 0 and empties exactly that
\* slot; while a slot is empty, close, read, write and fstat on it return -1,
\* and the slot stays empty until a sys_open returns that descriptor.
C26_CloseThenBadFd ==
    [][LET fd_table == tcbs[current].fd_table
       IN  /\ (/\ proc_last'.op = "close"
               /\ ~FdClosed(fd_table, proc_last'.fd)) =>
                  /\ proc_last'.ret = 0
                  /\ ~io_panicked'
                  /\ tcbs'[current].fd_table
                       = [fd_table EXCEPT ![proc_last'.fd + 1] = NoFile]
           /\ \A fd \in Fds :
                 (fd < Len(fd_table) /\ fd_table[fd + 1] = NoFile) =>
                    /\ (/\ proc_last'.op \in {"close", "read", "write", "fstat"}
                        /\ proc_last'.fd = fd) => proc_last'.ret = -1
                    /\ \/ tcbs'[current].fd_table[fd + 1] = NoFile
                       \/ proc_last'.op = "open" /\ proc_last'.ret = fd]_vars

\* C26 witness: stdout was closed, and a later write to descriptor 1 has
\* returned -1
C26_Witness ==
    /\ proc_last.op = "write"
    /\ proc_last.fd = 1
    /\ proc_last.ret = -1
    /\ tcbs[current].fd_table[2] = NoFile
    /\ tcbs[current].fd_table[1] = "stdin"

FileInodes == 1 .. (inode_bitmap - 1)

\* the names that find resolves to inode_id in a directory
NamesOf(inode_id, disk_inode) ==
    {name \in FsNames : find(name, disk_inode) = <<inode_id>>}

\* C28: after any sequence of create, add_link and remove_link, get_links(id)
\* of a file inode id is the number of names that find resolves to id; a
\* successful add_link raises the count of old's inode by 1, a successful
\* remove_link lowers the count of the removed name's inode by 1, and a
\* failing one leaves every count as it was.
C28_LinkCount ==
    /\ [](\A id \in FileInodes :
             get_links(id, dirents) = Cardinality(NamesOf(id, dirents)))
    /\ [][fs_last'.op \in {"add_link", "remove_link"} =>
             LET target == IF fs_last'.op = "add_link"
                           THEN find_inode_id(fs_last'.old, dirents)
                           ELSE find_inode_id(fs_last'.name, dirents)
             IN  \A id \in FileInodes :
                    get_links(id, dirents') =
                       get_links(id, dirents)
                         + (IF fs_last'.ret = 0 /\ target = <<id>>
                            THEN (IF fs_last'.op = "add_link" THEN 1 ELSE -1)
                            ELSE 0)]_vars

\* C29: remove_link(name) returns 0 exactly when the directory had an entry
\* named name, and -1 otherwise; afterwards find(name) is None and ls does not
\* list name, every other name resolves as before, and no inode is freed.
C29_RemoveLink ==
    [][fs_last'.op = "remove_link" =>
          LET name == fs_last'.name
          IN  /\ fs_last'.ret \in {0, -1}
              /\ (fs_last'.ret = 0) <=>
                    (\E i \in 1 .. Len(dirents) : dirents[i].name = name)
              /\ find(name, dirents') = <<>>
              /\ \A i \in 1 .. Len(ls(dirents')) : ls(dirents')[i] # name
              /\ \A other \in FsNames \ {name} :
                    find(other, dirents') = find(other, dirents)
              /\ inode_bitmap' = inode_bitmap]_vars

\* the entry is in use: it is not the empty entry remove_link leaves behind
Live(dirent) == dirent # DirEntry_empty

\* C30: no two live entries of the directory carry the same name; create(name)
\* returns None and leaves the directory as it was when the name exists; and
\* add_link(old, new) adds no second entry named new when new exists, new =
\* old included.
C30_UniqueNames ==
    /\ [](\A i \in 1 .. Len(dirents) : \A j \in 1 .. Len(dirents) :
             (i # j /\ Live(dirents[i]) /\ Live(dirents[j])) =>
                 dirents[i].name # dirents[j].name)
    /\ [][(/\ fs_last'.op = "create"
           /\ find_inode_id(fs_last'.name, dirents) # <<>>) =>
             /\ fs_last'.ret = None
             /\ dirents' = dirents]_vars
    /\ [][(/\ fs_last'.op = "add_link"
           /\ find_inode_id(fs_last'.name, dirents) # <<>>) =>
             Cardinality({i \in 1 .. Len(dirents') : dirents'[i].name = fs_last'.name})
               = Cardinality({i \in 1 .. Len(dirents) : dirents[i].name = fs_last'.name})]_vars

=============================================================================
